---- MODULE Spec2Model ----
(***************************************************************************)
(* A model of qbittorrentv2.client.Client: the authenticated-request       *)
(* dispatch helper (_get/_post/_request), login/logout, the constructor's  *)
(* probe, the preferences proxy, and the parameter formatting of delete,   *)
(* delete_permanently, get_item and _process_infohash_list.                *)
(*                                                                         *)
(* Python text is a TLA+ string; Python values are tagged records.  The    *)
(* server is the environment: every reply is a nondeterministic choice.    *)
(***************************************************************************)
EXTENDS Integers, Sequences, FiniteSets, TLC

(***************************************************************************)
(* Bounds of the model.                                                    *)
(***************************************************************************)
\* most requests.Session() objects a behaviour creates
MaxSessions == 3
\* longest infohash given to _process_infohash_list
MaxHashLen == 2
\* longest list of infohashes given to _process_infohash_list
MaxList == 2

(***************************************************************************)
(* Python values.                                                          *)
(***************************************************************************)
PyNone == [t |-> "None"]
PyBool(b) == [t |-> "bool", v |-> b]
PyInt(n) == [t |-> "int", v |-> n]
PyStr(s) == [t |-> "str", v |-> s]
PyList(q) == [t |-> "list", v |-> q]
PyDict(f) == [t |-> "dict", v |-> f]
\* a dict literal with no entries
EmptyMap == [k \in {} |-> PyNone]

(***************************************************************************)
(* str.lower(), str.join(), str.endswith() on ASCII text.                  *)
(***************************************************************************)
UpperChars == "ABCDEFGHIJKLMNOPQRSTUVWXYZ"
LowerChars == "abcdefghijklmnopqrstuvwxyz"

CharAt(s, i) == SubSeq(s, i, i)

LowerChar(c) ==
    IF \E i \in 1..Len(UpperChars) : CharAt(UpperChars, i) = c
    THEN LET i == CHOOSE j \in 1..Len(UpperChars) : CharAt(UpperChars, j) = c
         IN  CharAt(LowerChars, i)
    ELSE c

RECURSIVE lower(_)
lower(s) ==
    IF Len(s) = 0 THEN ""
    ELSE LowerChar(CharAt(s, 1)) \o lower(SubSeq(s, 2, Len(s)))

RECURSIVE join(_, _)
join(sep, q) ==
    IF Len(q) = 0 THEN ""
    ELSE IF Len(q) = 1 THEN q[1]
    ELSE q[1] \o sep \o join(sep, Tail(q))

endswith(s, suffix) ==
    /\ Len(s) >= Len(suffix)
    /\ SubSeq(s, Len(s) - Len(suffix) + 1, Len(s)) = suffix

startswith(s, prefix) ==
    /\ Len(s) >= Len(prefix)
    /\ SubSeq(s, 1, Len(prefix)) = prefix

DropPrefix(s, n) == SubSeq(s, n + 1, Len(s))

(***************************************************************************)
(* json.loads on the JSON subset the model's bodies use: the literals,     *)
(* integers, strings without escapes, arrays and objects.  A parse step    *)
(* returns [ok, v, rest]; json_loads fails (ValueError) when no value can  *)
(* be read or text is left over.                                           *)
(***************************************************************************)
Digits == "0123456789"
IsDigit(c) == \E i \in 1..Len(Digits) : CharAt(Digits, i) = c
DigitVal(c) == (CHOOSE i \in 1..Len(Digits) : CharAt(Digits, i) = c) - 1

ParseFail == [ok |-> FALSE, v |-> PyNone, rest |-> ""]
ParseOk(val, rest) == [ok |-> TRUE, v |-> val, rest |-> rest]

RECURSIVE SkipWs(_)
SkipWs(s) ==
    IF Len(s) > 0 /\ CharAt(s, 1) = " " THEN SkipWs(DropPrefix(s, 1)) ELSE s

\* the digits at the head of s, read onto acc
RECURSIVE ParseDigits(_, _)
ParseDigits(s, acc) ==
    IF Len(s) > 0 /\ IsDigit(CharAt(s, 1))
    THEN ParseDigits(DropPrefix(s, 1), 10 * acc + DigitVal(CharAt(s, 1)))
    ELSE ParseOk(PyInt(acc), s)

\* an integer without sign; a leading 0 is a number by itself
ParseNumber(s) ==
    IF Len(s) = 0 \/ ~IsDigit(CharAt(s, 1)) THEN ParseFail
    ELSE IF CharAt(s, 1) = "0" THEN ParseOk(PyInt(0), DropPrefix(s, 1))
    ELSE ParseDigits(s, 0)

Negated(r) == IF r.ok THEN ParseOk(PyInt(0 - r.v.v), r.rest) ELSE ParseFail

\* the characters of a string up to its closing quote
RECURSIVE ParseChars(_, _)
ParseChars(s, acc) ==
    IF Len(s) = 0 THEN ParseFail
    ELSE IF CharAt(s, 1) = "\"" THEN ParseOk(PyStr(acc), DropPrefix(s, 1))
    ELSE ParseChars(DropPrefix(s, 1), acc \o CharAt(s, 1))

\* a literal, a number or a string at the head of s
ScalarAt(s) ==
    IF startswith(s, "true") THEN ParseOk(PyBool(TRUE), DropPrefix(s, 4))
    ELSE IF startswith(s, "false") THEN ParseOk(PyBool(FALSE), DropPrefix(s, 5))
    ELSE IF startswith(s, "null") THEN ParseOk(PyNone, DropPrefix(s, 4))
    ELSE IF startswith(s, "\"") THEN ParseChars(DropPrefix(s, 1), "")
    ELSE IF startswith(s, "-") THEN Negated(ParseNumber(DropPrefix(s, 1)))
    ELSE ParseNumber(s)

RECURSIVE ParseValue(_)
RECURSIVE ParseElems(_, _)
RECURSIVE ParseMembers(_, _)

\* after an element: the end of the array or the next element
ElemsNext(t, acc) ==
    IF startswith(t, "]") THEN ParseOk(PyList(acc), DropPrefix(t, 1))
    ELSE IF startswith(t, ",") THEN ParseElems(DropPrefix(t, 1), acc)
    ELSE ParseFail

ElemsAfter(r, acc) ==
    IF ~r.ok THEN ParseFail ELSE ElemsNext(SkipWs(r.rest), Append(acc, r.v))

\* the elements of an array after its opening bracket
ParseElems(s, acc) == ElemsAfter(ParseValue(s), acc)

\* d[key] = value on a mapping; a repeated key keeps the later value
SetKey(f, key, value) ==
    [x \in DOMAIN f \cup {key} |-> IF x = key THEN value ELSE f[x]]

\* after a member: the end of the object or the next member
MembersNext(t, acc) ==
    IF startswith(t, "}") THEN ParseOk(PyDict(acc), DropPrefix(t, 1))
    ELSE IF startswith(t, ",") THEN ParseMembers(DropPrefix(t, 1), acc)
    ELSE ParseFail

MemberEnd(key, r, acc) ==
    IF ~r.ok THEN ParseFail
    ELSE MembersNext(SkipWs(r.rest), SetKey(acc, key, r.v))

MemberValue(key, c, acc) ==
    IF ~startswith(c, ":") THEN ParseFail
    ELSE MemberEnd(key, ParseValue(DropPrefix(c, 1)), acc)

MemberColon(k, acc) ==
    IF ~k.ok THEN ParseFail ELSE MemberValue(k.v.v, SkipWs(k.rest), acc)

MemberKey(s, acc) ==
    IF ~startswith(s, "\"") THEN ParseFail
    ELSE MemberColon(ParseChars(DropPrefix(s, 1), ""), acc)

\* the members of an object after its opening brace
ParseMembers(s, acc) == MemberKey(SkipWs(s), acc)

ArrayAt(t) ==
    IF startswith(t, "]") THEN ParseOk(PyList(<<>>), DropPrefix(t, 1))
    ELSE ParseElems(t, <<>>)

ObjectAt(t) ==
    IF startswith(t, "}") THEN ParseOk(PyDict(EmptyMap), DropPrefix(t, 1))
    ELSE ParseMembers(t, EmptyMap)

ValueAt(s) ==
    IF startswith(s, "[") THEN ArrayAt(SkipWs(DropPrefix(s, 1)))
    ELSE IF startswith(s, "{") THEN ObjectAt(SkipWs(DropPrefix(s, 1)))
    ELSE ScalarAt(s)

ParseValue(s) == ValueAt(SkipWs(s))

\* a value followed by nothing but blanks
Complete(r) ==
    IF r.ok /\ SkipWs(r.rest) = "" THEN [ok |-> TRUE, v |-> r.v]
    ELSE [ok |-> FALSE, v |-> PyNone]

\* [ok |-> FALSE] stands for ValueError (json.JSONDecodeError)
json_loads(s) == Complete(ParseValue(s))

(***************************************************************************)
(* json.dumps with the default separators, for the same subset; no         *)
(* escaping is needed for the text the model uses.                         *)
(***************************************************************************)
RECURSIVE NatToStr(_)
NatToStr(n) ==
    IF n < 10 THEN CharAt(Digits, n + 1)
    ELSE NatToStr(n \div 10) \o CharAt(Digits, (n % 10) + 1)

IntToStr(n) == IF n < 0 THEN "-" \o NatToStr(0 - n) ELSE NatToStr(n)

DumpScalar(val) ==
    CASE val.t = "None" -> "null"
      [] val.t = "bool" -> IF val.v THEN "true" ELSE "false"
      [] val.t = "int"  -> IntToStr(val.v)
      [] val.t = "str"  -> "\"" \o val.v \o "\""

RECURSIVE DumpElems(_)
DumpElems(q) ==
    IF Len(q) = 0 THEN ""
    ELSE IF Len(q) = 1 THEN DumpScalar(q[1])
    ELSE DumpScalar(q[1]) \o ", " \o DumpElems(Tail(q))

RECURSIVE DumpMembers(_, _)
DumpMembers(f, keys) ==
    IF keys = {} THEN ""
    ELSE LET k == CHOOSE x \in keys : TRUE
             m == "\"" \o k \o "\": " \o DumpScalar(f[k])
         IN  IF keys = {k} THEN m
             ELSE m \o ", " \o DumpMembers(f, keys \ {k})

json_dumps(val) ==
    CASE val.t = "list" -> "[" \o DumpElems(val.v) \o "]"
      [] val.t = "dict" -> "{" \o DumpMembers(val.v, DOMAIN val.v) \o "}"
      [] OTHER -> DumpScalar(val)

(***************************************************************************)
(* The server's replies.  status 0 stands for a request that fails in the  *)
(* transport (requests raises ConnectionError).                            *)
(***************************************************************************)
Response(status, text) == [status |-> status, text |-> text]
NoResponse == Response(-1, "")

Responses ==
    { Response(200, ""),
      Response(200, "Ok."),
      Response(200, "Fails."),
      Response(200, "{\"autorun_enabled\": true, \"dht\": 1}"),
      Response(200, "[1, 20]"),
      Response(200, "{\"dht\": "),
      Response(403, "Forbidden"),
      Response(404, ""),
      Response(500, "Ok."),
      Response(0, "") }

\* Response.raise_for_status raises HTTPError for 4xx and 5xx
raise_for_status(status) == 400 <= status /\ status < 600

(***************************************************************************)
(* A request as the HTTP library receives it: the session it is made on,   *)
(* the verb, the URL, the positional data and the keyword arguments.       *)
(***************************************************************************)
Request(session, method, url, data, kwargs) ==
    [session |-> session, method |-> method, url |-> url,
     data |-> data, kwargs |-> kwargs]

\* the result of a call: how it ended, what it returned, what it sent
Result(outcome, value, reqs) ==
    [outcome |-> outcome, value |-> value, reqs |-> reqs]

\* a Client object: self.url, self._is_authenticated, self.session
Self(u, auth, sess) == [url |-> u, _is_authenticated |-> auth, session |-> sess]

\* the attribute self.session before any assignment
NoSession == 0

\* try: r.v, except ValueError: fallback
ValueOr(r, fallback) == IF r.ok THEN r.v ELSE fallback

\* decode_body with the except branch giving an empty dict
decode_body_drops_text(text) ==
    IF Len(text) = 0 THEN json_loads("{}").v
    ELSE ValueOr(json_loads(text), PyDict(EmptyMap))

(***************************************************************************)
(* Client._request, lines 86-97: the decoding of a successful response.    *)
(***************************************************************************)
decode_body(text) ==
    IF Len(text) = 0 THEN json_loads("{}").v
    ELSE ValueOr(json_loads(text), PyStr(text))

\* _request without the check of self._is_authenticated
_request_unchecked(self, endpoint, method, data, kwargs, resp) ==
    LET final_url == self.url \o endpoint
        req == IF method = "get"
               THEN Request(self.session, "GET", final_url, PyNone, kwargs)
               ELSE Request(self.session, "POST", final_url, data, kwargs)
    IN  IF resp.status = 0 THEN Result("ConnectionError", PyNone, <<req>>)
        ELSE IF raise_for_status(resp.status) THEN Result("HTTPError", PyNone, <<req>>)
        ELSE Result("return", decode_body(resp.text), <<req>>)

\* _request that repeats a request answered with an HTTP error status
_request_retrying(self, endpoint, method, data, kwargs, resp) ==
    LET final_url == self.url \o endpoint
        req == IF method = "get"
               THEN Request(self.session, "GET", final_url, PyNone, kwargs)
               ELSE Request(self.session, "POST", final_url, data, kwargs)
    IN  IF ~self._is_authenticated THEN Result("LoginRequired", PyNone, <<>>)
        ELSE IF resp.status = 0 THEN Result("ConnectionError", PyNone, <<req>>)
        ELSE IF raise_for_status(resp.status) THEN Result("HTTPError", PyNone, <<req, req>>)
        ELSE Result("return", decode_body(resp.text), <<req>>)

(***************************************************************************)
(* Client._request(endpoint, method, data=None, **kwargs)                  *)
(***************************************************************************)
_request(self, endpoint, method, data, kwargs, resp) ==
    LET final_url == self.url \o endpoint
        req == IF method = "get"
               THEN Request(self.session, "GET", final_url, PyNone, kwargs)
               ELSE Request(self.session, "POST", final_url, data, kwargs)
    IN  IF ~self._is_authenticated THEN Result("LoginRequired", PyNone, <<>>)
        ELSE IF resp.status = 0 THEN Result("ConnectionError", PyNone, <<req>>)
        ELSE IF raise_for_status(resp.status) THEN Result("HTTPError", PyNone, <<req>>)
        ELSE Result("return", decode_body(resp.text), <<req>>)

\* kwargs without the keyword k
Without(kwargs, k) == [x \in DOMAIN kwargs \ {k} |-> kwargs[x]]

\* Client._get(endpoint, **kwargs): a keyword named data binds to _request's
\* parameter data, every other keyword stays in kwargs
_get(self, endpoint, kwargs, resp) ==
    _request(self, endpoint, "get",
             IF "data" \in DOMAIN kwargs THEN kwargs["data"] ELSE PyNone,
             Without(kwargs, "data"), resp)

\* Client._post(endpoint, data, **kwargs)
_post(self, endpoint, data, kwargs, resp) ==
    _request(self, endpoint, "post", data, kwargs, resp)

\* __init__ that takes every status but 404 for a working session
__init__any_status(u, sid, resp) ==
    LET u2 == IF ~endswith(u, "/api/v2/") THEN u \o "/api/v2/" ELSE u
        req == Request(sid, "GET", u2 \o "app/preferences", PyNone, EmptyMap)
    IN  IF resp.status = 0
        THEN [outcome |-> "ConnectionError", ok |-> FALSE,
              self |-> Self(u2, FALSE, NoSession), reqs |-> <<req>>]
        ELSE IF resp.status = 404
        THEN [outcome |-> "RuntimeError", ok |-> FALSE,
              self |-> Self(u2, FALSE, NoSession), reqs |-> <<req>>]
        ELSE [outcome |-> "return", ok |-> TRUE,
              self |-> Self(u2, TRUE, sid), reqs |-> <<req>>]

(***************************************************************************)
(* Client.__init__(url): sid is the requests.Session() it creates.         *)
(* A raised constructor leaves no object (ok = FALSE).                     *)
(***************************************************************************)
__init__(u, sid, resp) ==
    LET u2 == IF ~endswith(u, "/api/v2/") THEN u \o "/api/v2/" ELSE u
        req == Request(sid, "GET", u2 \o "app/preferences", PyNone, EmptyMap)
    IN  IF resp.status = 0
        THEN [outcome |-> "ConnectionError", ok |-> FALSE,
              self |-> Self(u2, FALSE, NoSession), reqs |-> <<req>>]
        ELSE IF resp.status = 200
        THEN [outcome |-> "return", ok |-> TRUE,
              self |-> Self(u2, TRUE, sid), reqs |-> <<req>>]
        ELSE IF resp.status = 404
        THEN [outcome |-> "RuntimeError", ok |-> FALSE,
              self |-> Self(u2, FALSE, NoSession), reqs |-> <<req>>]
        ELSE [outcome |-> "return", ok |-> TRUE,
              self |-> Self(u2, FALSE, NoSession), reqs |-> <<req>>]

(***************************************************************************)
(* Client.login(username, password): sid is the new requests.Session().    *)
(***************************************************************************)
login(self, sid, username, password, resp) ==
    LET s1 == Self(self.url, self._is_authenticated, sid)
        req == Request(sid, "POST", self.url \o "auth/login",
                       PyDict([username |-> PyStr(username),
                               password |-> PyStr(password)]),
                       EmptyMap)
    IN  IF resp.status = 0
        THEN [outcome |-> "ConnectionError", value |-> PyNone,
              self |-> s1, reqs |-> <<req>>]
        ELSE IF resp.text = "Ok."
        THEN [outcome |-> "return", value |-> PyNone,
              self |-> Self(self.url, TRUE, sid), reqs |-> <<req>>]
        ELSE [outcome |-> "return", value |-> PyStr(resp.text),
              self |-> s1, reqs |-> <<req>>]

\* logout that leaves self._is_authenticated as it was
logout_keeps_flag(self, resp) ==
    LET response == _get(self, "auth/logout", EmptyMap, resp)
    IN  IF response.outcome = "return"
        THEN [outcome |-> "return", value |-> response.value,
              self |-> self, reqs |-> response.reqs]
        ELSE [outcome |-> response.outcome, value |-> PyNone,
              self |-> self, reqs |-> response.reqs]

(***************************************************************************)
(* Client.logout()                                                         *)
(***************************************************************************)
logout(self, resp) ==
    LET response == _get(self, "auth/logout", EmptyMap, resp)
    IN  IF response.outcome = "return"
        THEN [outcome |-> "return", value |-> response.value,
              self |-> Self(self.url, FALSE, self.session),
              reqs |-> response.reqs]
        ELSE [outcome |-> response.outcome, value |-> PyNone,
              self |-> self, reqs |-> response.reqs]

(***************************************************************************)
(* Client.qbittorrent_version                                              *)
(***************************************************************************)
qbittorrent_version(self, resp) == _get(self, "app/version", EmptyMap, resp)

\* _process_infohash_list that lower-cases a single infohash only
_process_infohash_list_keeps_case(infohash_list) ==
    IF infohash_list.t = "list"
    THEN PyDict([hashes |-> PyStr(join("|", infohash_list.v))])
    ELSE PyDict([hashes |-> PyStr(lower(infohash_list.v))])

(***************************************************************************)
(* Client._process_infohash_list(infohash_list)                            *)
(***************************************************************************)
_process_infohash_list(infohash_list) ==
    IF infohash_list.t = "list"
    THEN PyDict([hashes |-> PyStr(join("|",
                    [i \in 1..Len(infohash_list.v) |-> lower(infohash_list.v[i])]))])
    ELSE PyDict([hashes |-> PyStr(lower(infohash_list.v))])

\* data[key] = value on a dict
SetItem(d, key, value) == PyDict(SetKey(d.v, key, value))

(***************************************************************************)
(* Client.delete(infohash_list), Client.delete_permanently(infohash_list)  *)
(***************************************************************************)
\* delete that asks for the files to be removed too
delete_with_files(self, infohash_list, resp) ==
    LET data == SetItem(_process_infohash_list(infohash_list),
                        "deleteFiles", PyBool(TRUE))
    IN  _post(self, "torrents/delete", data, EmptyMap, resp)

delete(self, infohash_list, resp) ==
    LET data == SetItem(_process_infohash_list(infohash_list),
                        "deleteFiles", PyBool(FALSE))
    IN  _post(self, "torrents/delete", data, EmptyMap, resp)

delete_permanently(self, infohash_list, resp) ==
    LET data == SetItem(_process_infohash_list(infohash_list),
                        "deleteFiles", PyBool(TRUE))
    IN  _post(self, "torrents/delete", data, EmptyMap, resp)

(***************************************************************************)
(* Client.get_item(withData=False)                                         *)
(***************************************************************************)
get_item(self, withData, resp) ==
    _get(self, "rss/items", [data |-> PyDict([withData |-> withData])], resp)

(***************************************************************************)
(* Client.set_preferences(self, **kwargs)                                  *)
(***************************************************************************)
set_preferences(self, kwargs, resp) ==
    LET json_data == "json=" \o json_dumps(PyDict(kwargs))
        headers == PyDict([ct \in {"content-type"} |->
                              PyStr("application/x-www-form-urlencoded")])
    IN  _post(self, "app/setPreferences", PyStr(json_data),
              [headers |-> headers], resp)

(***************************************************************************)
(* Client.preferences and its Proxy.  The property fetches the preferences *)
(* (resp1), then builds the Proxy, whose constructor runs Client.__init__  *)
(* (a probe on the new session sid, answered by resp2) before it takes     *)
(* over the caller's flag and session.                                     *)
(***************************************************************************)
NoProxy == [exists |-> FALSE, prefs |-> PyNone, self |-> Self("", FALSE, NoSession)]
ProxyObject == [t |-> "Proxy"]

preferences(self, sid, resp1, resp2) ==
    LET prefs == _get(self, "app/preferences", EmptyMap, resp1)
        super == __init__(self.url, sid, resp2)
    IN  IF prefs.outcome # "return"
        THEN [outcome |-> prefs.outcome, value |-> PyNone,
              proxy |-> NoProxy, reqs |-> prefs.reqs]
        ELSE IF ~super.ok
        THEN [outcome |-> super.outcome, value |-> PyNone,
              proxy |-> NoProxy, reqs |-> prefs.reqs \o super.reqs]
        ELSE [outcome |-> "return", value |-> ProxyObject,
              proxy |-> [exists |-> TRUE, prefs |-> prefs.value,
                         self |-> Self(super.self.url, self._is_authenticated,
                                       self.session)],
              reqs |-> prefs.reqs \o super.reqs]

\* Proxy.__getitem__(key): self.prefs[key]
Proxy__getitem__(p, key) ==
    IF p.prefs.t = "dict"
    THEN IF key \in DOMAIN p.prefs.v
         THEN Result("return", p.prefs.v[key], <<>>)
         ELSE Result("KeyError", PyNone, <<>>)
    ELSE Result("TypeError", PyNone, <<>>)

\* Proxy.__setitem__(key, value)
Proxy__setitem__(p, key, value, resp) ==
    set_preferences(p.self, [k \in {key} |-> value], resp)

(***************************************************************************)
(* The state: one Client object (client says whether it exists), the       *)
(* number of sessions created so far, the last call made with the requests *)
(* it sent, the Proxy last returned by Client.preferences, and the         *)
(* argument and result of _process_infohash_list.                          *)
(***************************************************************************)
VARIABLES client, url, _is_authenticated, session, nsessions,
          sent, last, proxy, infohash_list, data

vars == <<client, url, _is_authenticated, session, nsessions,
          sent, last, proxy, infohash_list, data>>

Me == Self(url, _is_authenticated, session)

\* a call: its name, its argument, self._is_authenticated when it began,
\* the server's reply to its first request, how it ended and its value
Call(op, arg, auth, resp, outcome, value) ==
    [op |-> op, arg |-> arg, auth |-> auth, resp |-> resp,
     outcome |-> outcome, value |-> value]

Urls == {"http://h", "http://h/api/v2/"}
Passwords == {"admin", "s3cret"}
InfohashSamples == {PyStr("AbC9"), PyList(<<"AB", "cd">>), PyList(<<>>)}
PrefKeys == {"autorun_enabled", "dht"}
PrefValues == {PyBool(FALSE), PyInt(7)}

Init ==
    /\ client = "none"
    /\ url = ""
    /\ _is_authenticated = FALSE
    /\ session = NoSession
    /\ nsessions = 0
    /\ sent = <<>>
    /\ last = Call("none", PyNone, FALSE, NoResponse, "none", PyNone)
    /\ proxy = NoProxy
    /\ infohash_list = PyNone
    /\ data = PyNone

Construct(u, resp) ==
    /\ client = "none"
    /\ LET r == __init__(u, nsessions + 1, resp) IN
       /\ client' = IF r.ok THEN "ok" ELSE "raised"
       /\ url' = r.self.url
       /\ _is_authenticated' = r.self._is_authenticated
       /\ session' = r.self.session
       /\ sent' = r.reqs
       /\ last' = Call("__init__", PyStr(u), FALSE, resp, r.outcome, PyNone)
    /\ nsessions' = nsessions + 1
    /\ UNCHANGED <<proxy, infohash_list, data>>

Login(password, resp) ==
    /\ client = "ok"
    /\ nsessions < MaxSessions
    /\ LET r == login(Me, nsessions + 1, "admin", password, resp) IN
       /\ _is_authenticated' = r.self._is_authenticated
       /\ session' = r.self.session
       /\ sent' = r.reqs
       /\ last' = Call("login", PyStr(password), _is_authenticated, resp,
                       r.outcome, r.value)
    /\ nsessions' = nsessions + 1
    /\ UNCHANGED <<client, url, proxy, infohash_list, data>>

Logout(resp) ==
    /\ client = "ok"
    /\ LET r == logout(Me, resp) IN
       /\ _is_authenticated' = r.self._is_authenticated
       /\ sent' = r.reqs
       /\ last' = Call("logout", PyNone, _is_authenticated, resp,
                       r.outcome, r.value)
    /\ UNCHANGED <<client, url, session, nsessions, proxy, infohash_list, data>>

\* a call that changes nothing in the client but what it sends and returns
Returns(op, arg, resp, r) ==
    /\ sent' = r.reqs
    /\ last' = Call(op, arg, _is_authenticated, resp, r.outcome, r.value)
    /\ UNCHANGED <<client, url, _is_authenticated, session, nsessions,
                   proxy, infohash_list, data>>

Version(resp) ==
    /\ client = "ok"
    /\ Returns("qbittorrent_version", PyNone, resp, qbittorrent_version(Me, resp))

Delete(h, resp) ==
    /\ client = "ok"
    /\ Returns("delete", h, resp, delete(Me, h, resp))

DeletePermanently(h, resp) ==
    /\ client = "ok"
    /\ Returns("delete_permanently", h, resp, delete_permanently(Me, h, resp))

GetItem(withData, resp) ==
    /\ client = "ok"
    /\ Returns("get_item", PyBool(withData), resp,
               get_item(Me, PyBool(withData), resp))

Preferences(resp1, resp2) ==
    /\ client = "ok"
    /\ _is_authenticated => nsessions < MaxSessions
    /\ LET r == preferences(Me, nsessions + 1, resp1, resp2) IN
       /\ sent' = r.reqs
       /\ last' = Call("preferences", PyNone, _is_authenticated, resp1,
                       r.outcome, r.value)
       /\ proxy' = IF r.outcome = "return" THEN r.proxy ELSE proxy
       /\ nsessions' = IF Len(r.reqs) = 2 THEN nsessions + 1 ELSE nsessions
    /\ UNCHANGED <<client, url, _is_authenticated, session, infohash_list, data>>

ProxySetItem(key, value, resp) ==
    /\ proxy.exists
    /\ LET r == Proxy__setitem__(proxy, key, value, resp) IN
       /\ sent' = r.reqs
       /\ last' = Call("proxy_setitem", PyDict([k \in {key} |-> value]),
                       proxy.self._is_authenticated, resp, r.outcome, r.value)
    /\ UNCHANGED <<client, url, _is_authenticated, session, nsessions,
                   proxy, infohash_list, data>>

ProxyGetItem(key) ==
    /\ proxy.exists
    /\ LET r == Proxy__getitem__(proxy, key) IN
       /\ sent' = r.reqs
       /\ last' = Call("proxy_getitem", PyStr(key),
                       proxy.self._is_authenticated, NoResponse,
                       r.outcome, r.value)
    /\ UNCHANGED <<client, url, _is_authenticated, session, nsessions,
                   proxy, infohash_list, data>>

Next ==
    \/ \E u \in Urls, resp \in Responses : Construct(u, resp)
    \/ \E pw \in Passwords, resp \in Responses : Login(pw, resp)
    \/ \E resp \in Responses : Logout(resp)
    \/ \E resp \in Responses : Version(resp)
    \/ \E h \in InfohashSamples, resp \in Responses : Delete(h, resp)
    \/ \E h \in InfohashSamples, resp \in Responses : DeletePermanently(h, resp)
    \/ \E w \in BOOLEAN, resp \in Responses : GetItem(w, resp)
    \/ \E resp1 \in Responses, resp2 \in Responses : Preferences(resp1, resp2)
    \/ \E k \in PrefKeys, v \in PrefValues, resp \in Responses : ProxySetItem(k, v, resp)
    \/ \E k \in PrefKeys : ProxyGetItem(k)

Spec == Init /\ [][Next]_vars

(***************************************************************************)
(* _process_infohash_list on its own: every infohash or list of infohashes *)
(* within the bounds is processed, and the produced value processed again. *)
(***************************************************************************)
HashChars == {"A", "a", "F", "9"}

RECURSIVE StringsUpTo(_)
StringsUpTo(n) ==
    IF n = 0 THEN {""}
    ELSE LET S == StringsUpTo(n - 1)
         IN  S \cup {s \o c : s \in S, c \in HashChars}

InfohashInputs ==
    {PyStr(s) : s \in StringsUpTo(MaxHashLen)}
    \cup {PyList(q) : q \in UNION {[1..k -> StringsUpTo(MaxHashLen)] : k \in 0..MaxList}}

InitFn ==
    /\ client = "none"
    /\ url = ""
    /\ _is_authenticated = FALSE
    /\ session = NoSession
    /\ nsessions = 0
    /\ sent = <<>>
    /\ last = Call("none", PyNone, FALSE, NoResponse, "none", PyNone)
    /\ proxy = NoProxy
    /\ infohash_list \in InfohashInputs
    /\ data = PyNone

Process ==
    /\ data = PyNone
    /\ data' = _process_infohash_list(infohash_list)
    /\ UNCHANGED <<client, url, _is_authenticated, session, nsessions,
                   sent, last, proxy, infohash_list>>

Reprocess ==
    /\ data # PyNone
    /\ infohash_list' = data.v["hashes"]
    /\ data' = _process_infohash_list(data.v["hashes"])
    /\ UNCHANGED <<client, url, _is_authenticated, session, nsessions,
                   sent, last, proxy>>

NextFn == Process \/ Reprocess

SpecFn == InitFn /\ [][NextFn]_vars

(***************************************************************************)
(* Properties.                                                             *)
(***************************************************************************)
\* the calls of the Client object that go through _get
GetOps == {"logout", "qbittorrent_version", "get_item", "preferences"}
\* the calls of the Client object that go through _post
PostOps == {"delete", "delete_permanently"}
ClientApiOps == GetOps \cup PostOps
\* with the Proxy's assignment, which goes through set_preferences and _post
HelperOps == ClientApiOps \cup {"proxy_setitem"}

Succeeded(resp) == resp.status # 0 /\ ~raise_for_status(resp.status)

\* C1: a call through _get/_post/_request made while self._is_authenticated
\* is false raises LoginRequired and sends no HTTP request.
C1_LoginRequiredSendsNothing ==
    (last.op \in HelperOps /\ ~last.auth)
        => (last.outcome = "LoginRequired" /\ sent = <<>>)

C1_Witness ==
    /\ last.op = "delete"
    /\ ~last.auth
    /\ last.outcome = "LoginRequired"
    /\ sent = <<>>

\* C2: after login returns, the client is authenticated if and only if the
\* reply was exactly 'Ok.'; on any other reply login returns the reply text
\* and the client is not authenticated, whatever its state before the call.
C2_AuthenticatedIffOk ==
    (last.op = "login" /\ last.outcome = "return")
        => /\ _is_authenticated <=> (last.resp.text = "Ok.")
           /\ last.resp.text # "Ok." => last.value = PyStr(last.resp.text)

\* An unauthenticated client stays unauthenticated, and its API calls raise
\* LoginRequired, in every step but a login that is answered 'Ok.'.
UnauthenticatedUntilLoginOk ==
    [][ (/\ client = "ok"
         /\ ~_is_authenticated
         /\ ~(last'.op = "login" /\ last'.resp.text = "Ok."))
        => (/\ ~_is_authenticated'
            /\ last'.op \in ClientApiOps => last'.outcome = "LoginRequired"
            /\ last'.op \in ClientApiOps => sent' = <<>>) ]_vars

LogoutLeavesUnauthenticated ==
    (last.op = "logout" /\ last.outcome = "return") => ~_is_authenticated

\* C3: after logout returns normally the client is unauthenticated, and
\* every later API call raises LoginRequired until a login is answered 'Ok.'.
C3_LogoutUntilLogin ==
    /\ []LogoutLeavesUnauthenticated
    /\ UnauthenticatedUntilLoginOk

C3_Witness ==
    /\ last.op = "logout"
    /\ last.auth
    /\ last.outcome = "return"
    /\ ~_is_authenticated
    /\ Len(sent) = 1

InitClassifiesStatus ==
    last.op = "__init__" =>
        /\ Len(sent) = 1
        /\ sent[1] = Request(nsessions, "GET", url \o "app/preferences",
                             PyNone, EmptyMap)
        /\ last.resp.status = 200 =>
              /\ client = "ok" /\ last.outcome = "return"
              /\ _is_authenticated
              /\ session = sent[1].session
        /\ last.resp.status = 404 =>
              /\ client = "raised" /\ last.outcome = "RuntimeError"
        /\ last.resp.status \notin {0, 200, 404} =>
              /\ client = "ok" /\ last.outcome = "return"
              /\ ~_is_authenticated

\* C4: the constructor probes app/preferences once; 200 gives an
\* authenticated client holding the probing session, 404 raises
\* RuntimeError, any other status gives an unauthenticated client whose API
\* calls raise LoginRequired until a login succeeds.
C4_ConstructorProbe ==
    /\ []InitClassifiesStatus
    /\ UnauthenticatedUntilLoginOk

C4_Witness ==
    /\ last.op = "__init__"
    /\ last.resp.status = 403
    /\ client = "ok"
    /\ ~_is_authenticated
    /\ last.outcome = "return"

\* C5: for an authenticated client one call of the helper sends exactly one
\* request, GET for 'get' and POST otherwise; an HTTP error status is raised
\* to the caller, nothing is returned and nothing is sent again.  (After the
\* helper has returned, Client.preferences goes on to build the Proxy, whose
\* constructor probes on a session of its own.)
C5_OneRequestNoRetry ==
    (last.op \in HelperOps /\ last.auth) =>
        /\ Len(sent) >= 1
        /\ sent[1].method = (IF last.op \in GetOps THEN "GET" ELSE "POST")
        /\ IF last.op = "preferences" /\ Succeeded(last.resp)
           THEN /\ Len(sent) = 2
                /\ sent[2] = Request(nsessions, "GET", url \o "app/preferences",
                                     PyNone, EmptyMap)
                /\ sent[2].session # sent[1].session
           ELSE Len(sent) = 1
        /\ raise_for_status(last.resp.status) =>
              (last.outcome = "HTTPError" /\ last.value = PyNone)

C5_Witness ==
    /\ last.op = "delete"
    /\ last.auth
    /\ last.resp.status = 403
    /\ last.outcome = "HTTPError"
    /\ Len(sent) = 1
    /\ sent[1].method = "POST"

\* what the helper returns for the body text of a successful response
Decoded(value, text) ==
    /\ text = "" => value = PyDict(EmptyMap)
    /\ json_loads(text).ok => value = json_loads(text).v
    /\ (text # "" /\ ~json_loads(text).ok) => value = PyStr(text)

\* C6: for a successful response the helper returns an empty dict for an
\* empty body, the decoded value for valid JSON and the raw text otherwise;
\* it never raises on an undecodable body.
C6_DecodesBody ==
    /\ (last.op \in HelperOps \ {"preferences"} /\ last.auth /\ Succeeded(last.resp))
          => (last.outcome = "return" /\ Decoded(last.value, last.resp.text))
    /\ (last.op = "preferences" /\ last.outcome = "return")
          => Decoded(proxy.prefs, last.resp.text)

C6_Witness ==
    /\ last.op = "qbittorrent_version"
    /\ last.resp = Response(200, "{\"dht\": ")
    /\ last.outcome = "return"
    /\ last.value = PyStr("{\"dht\": ")

\* C7: on the Proxy, prefs[key] = value followed by prefs[key] gives value.
C7_ReadsAssignedValue ==
    [][ (/\ last.op = "proxy_setitem"
         /\ last.outcome = "return"
         /\ last'.op = "proxy_getitem"
         /\ last'.arg.v \in DOMAIN last.arg.v)
        => (/\ last'.outcome = "return"
            /\ last'.value = last.arg.v[last'.arg.v]) ]_vars

\* C8: delete and delete_permanently post to torrents/delete with the same
\* 'hashes' for the same input; delete sends deleteFiles = False and
\* delete_permanently sends deleteFiles = True.
C8_DeleteFilesFlag ==
    (last.op \in {"delete", "delete_permanently"} /\ last.auth) =>
        /\ Len(sent) = 1
        /\ sent[1].method = "POST"
        /\ sent[1].url = url \o "torrents/delete"
        /\ sent[1].data.t = "dict"
        /\ DOMAIN sent[1].data.v = {"hashes", "deleteFiles"}
        /\ sent[1].data.v["hashes"] = _process_infohash_list(last.arg).v["hashes"]
        /\ sent[1].data.v["deleteFiles"] = PyBool(last.op = "delete_permanently")

C8_Witness ==
    /\ last.op = "delete"
    /\ last.auth
    /\ last.arg = PyList(<<"AB", "cd">>)
    /\ Len(sent) = 1
    /\ sent[1].data = PyDict([hashes |-> PyStr("ab|cd"), deleteFiles |-> PyBool(FALSE)])

\* the places of a request that reach the server
Carries(req, key, value) ==
    \/ req.data.t = "dict" /\ key \in DOMAIN req.data.v /\ req.data.v[key] = value
    \/ \E kw \in DOMAIN req.kwargs \cap {"params", "data", "json"} :
          /\ req.kwargs[kw].t = "dict"
          /\ key \in DOMAIN req.kwargs[kw].v
          /\ req.kwargs[kw].v[key] = value

\* C9: get_item(withData) sends withData in the rss/items request, so the
\* requests for withData=True and withData=False differ.
C9_SendsWithData ==
    (last.op = "get_item" /\ last.auth) =>
        /\ Len(sent) = 1
        /\ sent[1].url = url \o "rss/items"
        /\ Carries(sent[1], "withData", last.arg)
        /\ sent # get_item(Me, PyBool(~last.arg.v), last.resp).reqs

\* out is s lower-cased, character by character
IsLowered(out, s) ==
    /\ Len(out) = Len(s)
    /\ \A i \in 1..Len(s) : CharAt(out, i) = LowerChar(CharAt(s, i))

RECURSIVE Offset(_, _)
\* where the k-th infohash starts in the joined text, less one
Offset(q, k) == IF k = 1 THEN 0 ELSE Offset(q, k - 1) + Len(q[k - 1]) + 1

\* out is the infohashes of q lower-cased, in order, separated by '|'
IsJoined(out, q) ==
    /\ Len(q) = 0 => out = ""
    /\ Len(q) > 0 => Len(out) = Offset(q, Len(q)) + Len(q[Len(q)])
    /\ \A k \in 1..Len(q) :
          /\ IsLowered(SubSeq(out, Offset(q, k) + 1, Offset(q, k) + Len(q[k])), q[k])
          /\ k < Len(q) => CharAt(out, Offset(q, k) + Len(q[k]) + 1) = "|"

\* C10: _process_infohash_list returns a dict with the single key 'hashes':
\* the lower-cased infohashes joined by '|' in order for a list, the
\* lower-cased string for a string; processing the produced value again
\* gives the same value.
C10_ProcessInfohashList ==
    data # PyNone =>
        /\ data.t = "dict"
        /\ DOMAIN data.v = {"hashes"}
        /\ data.v["hashes"].t = "str"
        /\ IF infohash_list.t = "list"
           THEN IsJoined(data.v["hashes"].v, infohash_list.v)
           ELSE IsLowered(data.v["hashes"].v, infohash_list.v)
        /\ _process_infohash_list(data.v["hashes"]) = data

C10_Witness ==
    /\ infohash_list = PyList(<<"AF", "9a">>)
    /\ data = PyDict([hashes |-> PyStr("af|9a")])

====
